---- MODULE Spec2Model ----
(***************************************************************************)
(* Model of the two demo agents of building_agents_from_scratch:           *)
(*   tool_use/src/main.py + tools.py   (the tool-use Agent)                *)
(*   planning/reflection/src/main.py   (the reflection Agent)              *)
(*                                                                         *)
(* A Python dict is a function whose DOMAIN is the set of keys it holds,   *)
(* so `"k" \in DOMAIN d` is `"k" in d`.  A call's result is an outcome:    *)
(* Return(v) or Raise(e).  A model reply is a piece of text; json.loads    *)
(* either raises on it or yields a JSON value that is an object (a dict)   *)
(* or something else (a list, a number, null).                             *)
(***************************************************************************)
EXTENDS Integers, Sequences, FiniteSets, TLC

VARIABLES
    \* ---- tool-use Agent (tool_use/src/main.py)
    tools,        \* self.tools: insertion-ordered dict name -> Tool, as the sequence of its values
    regLog,       \* history: every Tool passed to add_tool, in call order
    lastCall,     \* the caller's last direct call of use_tool, get_available_tools or
                  \* create_system_prompt: its arguments and what it returned
    tpc,          \* position of the running execute: "idle", "loop", "done"
    tplan,        \* execute's local `plan`
    tidx,         \* 1-based index of the next tool_call of the for loop
    tresults,     \* execute's local `results`
    tinvoked,     \* history: the tool implementations invoked by this execute, in order
    tlog,         \* history: per finished loop iteration, what the call did
    tsent,        \* the messages of the planning request of this execute
    treply,       \* the model's reply to that request
    tret,         \* what execute returned
    \* ---- reflection Agent (planning/reflection/src/main.py)
    interactions, \* self.interactions: the working memory, Interaction records in order
    rpc,          \* position of the running execute: "Idle", "Start", "Planned",
                  \* "Reflected", "Replanned", "Rendered", "End"
    rquery,       \* execute's argument user_query
    initial_plan, \* execute's local initial_plan
    reflection,   \* execute's local reflection
    final_plan,   \* execute's local final_plan
    rlog,         \* history: the model requests of this execute and their replies
    nreflect,     \* history: the reflect_on_plan calls of this execute
    rret          \* what execute returned

regVars == <<tools, regLog>>
callVars == <<lastCall>>
execVars == <<tpc, tplan, tidx, tresults, tinvoked, tlog, tsent, treply, tret>>
tvars == <<regVars, callVars, execVars>>

rlocals == <<rpc, rquery, initial_plan, reflection, final_plan, rlog, nreflect, rret>>
rvars == <<interactions, rlocals>>

vars == <<tvars, rvars>>

----------------------------------------------------------------------------
\* Bounds of the model

\* add_tool calls per run
MaxRegs == 3
\* tool_calls entries of one plan
MaxCalls == 2
\* Interactions the working memory may hold: execute calls that stored a plan
MaxInteractions == 1

\* the number of Interactions the working memory holds at most when several
\* queries are run on one Agent
MaxMemory == 2

----------------------------------------------------------------------------
\* Outcomes of a call, JSON values, texts

Return(v) == [ok |-> TRUE, val |-> v]
Raise(e) == [ok |-> FALSE, exc |-> e]

NotJson(raw) == [json |-> FALSE, raw |-> raw]
JsonObj(d) == [json |-> TRUE, isdict |-> TRUE, d |-> d]
JsonOther == [json |-> TRUE, isdict |-> FALSE, d |-> <<>>]

\* json.loads(text): JSONDecodeError on text that is not JSON, else the value
json_loads(text) ==
    IF text.json THEN Return([isdict |-> text.isdict, d |-> text.d])
    ELSE Raise("JSONDecodeError")

\* d.get(key, default) on a JSON value; a value that is no dict has no .get
dict_get(v, key, default) ==
    IF ~v.isdict THEN Raise("AttributeError")
    ELSE IF key \in DOMAIN v.d THEN Return(v.d[key]) ELSE Return(default)

\* d[key] on a JSON value
dict_item(v, key) ==
    IF ~v.isdict THEN Raise("TypeError")
    ELSE IF key \in DOMAIN v.d THEN Return(v.d[key]) ELSE Raise("KeyError")

NoPlan == [isdict |-> FALSE, d |-> <<>>]
NoRet == [kind |-> "none"]

\* the truth of the text of the value: only the empty string is false
Truthy_nonempty(x) == x # ""

\* Python truth of a JSON scalar; the JSON booleans are written "true" and "false"
Truthy(x) == x \notin {"false", "null", ""}

----------------------------------------------------------------------------
\* Tools (tool_registry.Tool as main.py uses it: name, description, parameters, func)

ToolNames == {"convert_currency", "lookup"}
KwArgs == {"args1", "args2"}

ConvertCurrencyTool ==
    [name |-> "convert_currency",
     description |-> "Converts currency using latest exchange rates.",
     parameters |-> [amount |-> [type |-> "float", description |-> "Amount to convert"]],
     func |-> "convert_currency"]

LookupTool(v) ==
    [name |-> "lookup",
     description |-> v,
     parameters |-> [key |-> [type |-> "str", description |-> "Key"]],
     func |-> v]

ToolObjs == {ConvertCurrencyTool, LookupTool("lookup_v1"), LookupTool("lookup_v2")}

\* What the world does to one tool call: the rate service for convert_currency,
\* the implementation's own success or failure for any other tool
Envs(func) ==
    IF func = "convert_currency"
    THEN {"ok", "network", "badjson", "norates", "norate", "badargs"}
    ELSE {"ok", "raise"}

AllEnvs == {"ok", "network", "badjson", "norates", "norate", "badargs", "raise"}

Text(s, a) == [out |-> s, arg |-> a]

\* tools.py: the try block of convert_currency
convert_currency_try(kwargs, env) ==
    CASE env = "network" -> Raise("URLError")
      [] env = "badjson" -> Raise("JSONDecodeError")
      [] env = "norates" -> Return(Text("Error: Could not fetch exchange rates", kwargs))
      [] env = "norate" -> Return(Text("Error: No rate found", kwargs))
      [] OTHER -> Return(Text("converted", kwargs))

\* the body without its except clause
convert_currency_noexcept(kwargs, env) == convert_currency_try(kwargs, env)

\* tools.py: convert_currency, the except clause turns any failure into text
convert_currency(kwargs, env) ==
    LET r == convert_currency_try(kwargs, env)
    IN IF r.ok THEN r ELSE Return(Text("Error converting currency", kwargs))

\* tool.func(**kwargs): binding the keyword arguments happens before the body runs
tool_func(tool, kwargs, env) ==
    IF tool.func = "convert_currency"
    THEN IF env = "badargs" THEN Raise("TypeError") ELSE convert_currency(kwargs, env)
    ELSE IF env = "raise" THEN Raise("RuntimeError") ELSE Return(Text(tool.func, kwargs))

----------------------------------------------------------------------------
\* The registry: self.tools

HasKey(d, k) == \E i \in 1..Len(d) : d[i].name = k
Lookup(d, k) == d[CHOOSE i \in 1..Len(d) : d[i].name = k]

\* a store that appends even when the key is there already
dict_set_append(d, tool) == Append(d, tool)

\* d[tool.name] = tool: a new key goes last, an old key keeps its place
dict_set(d, tool) ==
    IF HasKey(d, tool.name)
    THEN [i \in 1..Len(d) |-> IF d[i].name = tool.name THEN tool ELSE d[i]]
    ELSE Append(d, tool)

add_tool(tool) ==
    /\ tpc = "idle"
    /\ Len(regLog) < MaxRegs
    /\ tools' = dict_set(tools, tool)
    /\ regLog' = Append(regLog, tool)
    /\ UNCHANGED <<rvars, callVars, execVars>>

\* the list of "name: description" strings
get_available_tools(d) ==
    [i \in 1..Len(d) |-> [name |-> d[i].name, description |-> d[i].description]]

\* the "tools" list of the prompt; the rest of the prompt is fixed text
create_system_prompt(d) ==
    [i \in 1..Len(d) |->
        [name |-> d[i].name,
         description |-> d[i].description,
         parameters |-> [n \in DOMAIN d[i].parameters |->
                            [type |-> d[i].parameters[n].type,
                             description |-> d[i].parameters[n].description]]]]

\* a lookup that takes the first tool ever registered under the name
use_tool_first(d, tool_name, kwargs, env) ==
    IF ~HasKey(d, tool_name) THEN Raise("ValueError")
    ELSE tool_func(regLog[CHOOSE i \in 1..Len(regLog) :
                              /\ regLog[i].name = tool_name
                              /\ \A j \in 1..(i-1) : regLog[j].name # tool_name],
                   kwargs, env)

use_tool(d, tool_name, kwargs, env) ==
    IF ~HasKey(d, tool_name) THEN Raise("ValueError")
    ELSE tool_func(Lookup(d, tool_name), kwargs, env)

\* the implementation use_tool runs, if any
use_tool_invokes(d, tool_name, kwargs) ==
    IF HasKey(d, tool_name)
    THEN <<[func |-> Lookup(d, tool_name).func, kwargs |-> kwargs]>>
    ELSE <<>>

\* what the world may do to a call of tool_name
EnvOk(d, tool_name, env) ==
    IF HasKey(d, tool_name) THEN env \in Envs(Lookup(d, tool_name).func) ELSE env = "ok"

NoCall == [op |-> "none"]

\* the caller uses a tool directly
call_use_tool(tool_name, kwargs, env) ==
    /\ tpc = "idle"
    /\ EnvOk(tools, tool_name, env)
    /\ lastCall' = [op |-> "use_tool", log |-> regLog,
                    name |-> tool_name, kwargs |-> kwargs, env |-> env,
                    outcome |-> use_tool(tools, tool_name, kwargs, env),
                    invoked |-> use_tool_invokes(tools, tool_name, kwargs)]
    /\ UNCHANGED <<rvars, regVars, execVars>>

call_get_available_tools ==
    /\ tpc = "idle"
    /\ lastCall' = [op |-> "get_available_tools", log |-> regLog,
                    out |-> get_available_tools(tools)]
    /\ UNCHANGED <<rvars, regVars, execVars>>

call_create_system_prompt ==
    /\ tpc = "idle"
    /\ lastCall' = [op |-> "create_system_prompt", log |-> regLog,
                    out |-> create_system_prompt(tools)]
    /\ UNCHANGED <<rvars, regVars, execVars>>

----------------------------------------------------------------------------
\* The tool-use Agent: plan and execute (tool_use/src/main.py)

Queries == {"q1"}

EmptyDict == [k \in {} |-> ""]
Field(k, present, v) == IF present THEN k :> v ELSE EmptyDict

Line(s) == [out |-> s, arg |-> ""]
Sep == Line(". ")

\* parts in the opposite order
RECURSIVE join_reversed(_, _)
join_reversed(sep, parts) ==
    IF Len(parts) = 0 THEN <<>>
    ELSE IF Len(parts) = 1 THEN <<parts[1]>>
    ELSE join_reversed(sep, Tail(parts)) \o <<sep, parts[1]>>

\* sep.join(parts): the parts with the separator between neighbours
RECURSIVE join(_, _)
join(sep, parts) ==
    IF Len(parts) = 0 THEN <<>>
    ELSE IF Len(parts) = 1 THEN <<parts[1]>>
    ELSE <<parts[1], sep>> \o join(sep, Tail(parts))

\* the tool_calls a reply may list: lookup with either argument set, convert_currency
\* and a name that is never registered with the first
Calls == {c \in [tool : ToolNames \cup {"missing"}, args : KwArgs] :
             c.tool = "lookup" \/ c.args = "args1"}
CallSeqs == UNION {[1..n -> Calls] : n \in 0..MaxCalls}

Steps == <<Line("step 1"), Line("step 2")>>

\* the JSON objects a reply to the planning request may hold: every field optional
PlanDicts ==
    {    Field("requires_tools", rt # "absent", rt)
      @@ Field("direct_response", dr, Line("direct"))
      @@ Field("thought", th, Line("thought"))
      @@ Field("plan", pl, Steps)
      @@ Field("tool_calls", Len(tc) = 1, IF Len(tc) = 1 THEN tc[1] ELSE <<>>) :
         rt \in {"absent", "true", "false"}, dr \in BOOLEAN, th \in BOOLEAN,
         pl \in BOOLEAN, tc \in {<<>>} \cup {<<c>> : c \in CallSeqs}}

PlanReplies == {NotJson("raw")} \cup {JsonOther} \cup {JsonObj(d) : d \in PlanDicts}

\* plan(): one request to the model, the reply parsed; a parse failure is re-raised
plan(reply) ==
    LET r == json_loads(reply)
    IN IF r.ok THEN r ELSE Raise("ValueError")

ErrorString(e) == [kind |-> "error", msg |-> e]
Value(v) == [kind |-> "value", val |-> v]

\* no handler: the exception leaves execute
catch_none(e) == [kind |-> "raised", exc |-> e]

\* except Exception as e: return f"Error executing plan: {str(e)}"
catch_all(e) == ErrorString(e)

\* the loop taking the calls from the end
loop_item_reversed(calls, i) == calls[Len(calls) + 1 - i]

\* for tool_call in plan["tool_calls"]: the i-th iteration's tool_call
loop_item(calls, i) == calls[i]

\* lines 197-199: the Thought/Plan/Results text
render(p, results) ==
    LET th == dict_item(p, "thought")
        pl == dict_item(p, "plan")
    IN IF ~th.ok THEN Raise(th.exc)
       ELSE IF ~pl.ok THEN Raise(pl.exc)
       ELSE Return([kind |-> "summary", thought |-> th.val,
                    plan |-> join(Sep, pl.val), results |-> join(Sep, results)])

\* execute, lines 182-189: the planning request and the branch on requires_tools
execute_plan(query) ==
    /\ tpc = "idle"
    /\ tret = NoRet
    /\ tsent' = <<[role |-> "system", content |-> create_system_prompt(tools)],
                  [role |-> "user", content |-> query]>>
    /\ tinvoked' = <<>>
    /\ tlog' = <<>>
    /\ tresults' = <<>>
    /\ \E reply \in PlanReplies :
        LET r == plan(reply)
            p == r.val
            rt == dict_get(p, "requires_tools", "true")
            dr == dict_item(p, "direct_response")
            tc == dict_item(p, "tool_calls")
        IN /\ treply' = reply
           /\ IF ~r.ok
              THEN /\ tret' = catch_all(r.exc)
                   /\ tpc' = "done" /\ tplan' = NoPlan /\ tidx' = 0
              ELSE /\ tplan' = p
                   /\ IF ~rt.ok
                      THEN tret' = catch_all(rt.exc) /\ tpc' = "done" /\ tidx' = 0
                      ELSE IF ~Truthy(rt.val)
                      THEN /\ tret' = IF dr.ok THEN Value(dr.val) ELSE catch_all(dr.exc)
                           /\ tpc' = "done" /\ tidx' = 0
                      ELSE IF ~tc.ok
                      THEN tret' = catch_all(tc.exc) /\ tpc' = "done" /\ tidx' = 0
                      ELSE tret' = NoRet /\ tpc' = "loop" /\ tidx' = 1
    /\ UNCHANGED <<rvars, regVars, callVars>>

\* an iteration that turns a raising call into a result and goes on
execute_call_isolated(env) ==
    /\ tpc = "loop"
    /\ tidx <= Len(tplan.d["tool_calls"])
    /\ LET tool_call == loop_item(tplan.d["tool_calls"], tidx)
           result == use_tool(tools, tool_call.tool, tool_call.args, env)
       IN /\ EnvOk(tools, tool_call.tool, env)
          /\ tinvoked' = tinvoked \o use_tool_invokes(tools, tool_call.tool, tool_call.args)
          /\ tlog' = Append(tlog, [idx |-> tidx, call |-> tool_call, env |-> env,
                                   outcome |-> result])
          /\ tresults' = Append(tresults, IF result.ok THEN result.val
                                          ELSE Text(result.exc, tool_call.args))
          /\ tidx' = tidx + 1
          /\ UNCHANGED <<tpc, tret>>
    /\ UNCHANGED <<rvars, regVars, callVars, tplan, tsent, treply>>

\* execute, lines 190-194: one iteration of the for loop
execute_call(env) ==
    /\ tpc = "loop"
    /\ tidx <= Len(tplan.d["tool_calls"])
    /\ LET tool_call == loop_item(tplan.d["tool_calls"], tidx)
           tool_name == tool_call.tool
           tool_args == tool_call.args
           result == use_tool(tools, tool_name, tool_args, env)
       IN /\ EnvOk(tools, tool_name, env)
          /\ tinvoked' = tinvoked \o use_tool_invokes(tools, tool_name, tool_args)
          /\ tlog' = Append(tlog, [idx |-> tidx, call |-> tool_call, env |-> env,
                                   outcome |-> result])
          /\ IF result.ok
             THEN /\ tresults' = Append(tresults, result.val)
                  /\ tidx' = tidx + 1
                  /\ UNCHANGED <<tpc, tret>>
             ELSE /\ tret' = catch_all(result.exc)
                  /\ tpc' = "done"
                  /\ UNCHANGED <<tresults, tidx>>
    /\ UNCHANGED <<rvars, regVars, callVars, tplan, tsent, treply>>

\* execute, lines 196-199: the loop is over, the results are combined
execute_render ==
    /\ tpc = "loop"
    /\ tidx > Len(tplan.d["tool_calls"])
    /\ LET r == render(tplan, tresults)
       IN tret' = IF r.ok THEN r.val ELSE catch_all(r.exc)
    /\ tpc' = "done"
    /\ UNCHANGED <<rvars, regVars, callVars, tplan, tidx, tresults, tinvoked, tlog, tsent, treply>>

\* the caller has the string; the locals of the call are gone
execute_return ==
    /\ tpc = "done"
    /\ tpc' = "idle"
    /\ tret' = NoRet
    /\ tplan' = NoPlan /\ tidx' = 0 /\ tresults' = <<>>
    /\ tinvoked' = <<>> /\ tlog' = <<>> /\ tsent' = <<>> /\ treply' = NotJson("")
    /\ UNCHANGED <<rvars, regVars, callVars>>

----------------------------------------------------------------------------
\* The reflection Agent (planning/reflection/src/main.py)

StepsOf(v) == <<Line("step 1 of " \o v), Line("step 2 of " \o v)>>

\* a JSON object with the fields of the tool path
ToolFields(v) == ("thought" :> Line("thought of " \o v)) @@ ("plan" :> StepsOf(v))

\* a JSON object with the field of the direct path
DirectField == "direct_response" :> Line("direct")

\* the JSON objects a reply to a planning or revision request may hold, one of each
\* shape the code tells apart: the flag true, false or missing, and the fields of the
\* path present or missing
RPlanDicts ==
    { ("requires_tools" :> "true") @@ ToolFields("A"),
      ("requires_tools" :> "true") @@ ToolFields("B"),
      ("requires_tools" :> "false") @@ DirectField,
      ToolFields("A"),
      "requires_tools" :> "true",
      "requires_tools" :> "false",
      ("requires_tools" :> "false") @@ DirectField @@ ToolFields("A") }

RPlanReplies == {NotJson("raw plan")} \cup {JsonOther} \cup {JsonObj(d) : d \in RPlanDicts}

\* the JSON objects a reply to the reflection request may hold: requires_changes
\* true, false, missing or a non-empty string, the explanation present or missing
ReflectionDicts ==
    { ("requires_changes" :> "true") @@ ("reflection" :> Line("critique")),
      ("requires_changes" :> "false") @@ ("reflection" :> Line("critique")),
      ("requires_changes" :> "yes") @@ ("reflection" :> Line("critique")),
      "reflection" :> Line("critique"),
      "requires_changes" :> "true" }

ReflectionReplies ==
    {NotJson("raw reflection")} \cup {JsonOther} \cup {JsonObj(d) : d \in ReflectionDicts}

Dict(d) == [isdict |-> TRUE, d |-> d]

Interaction(query, p) == [query |-> query, plan |-> p]

\* plan(), lines 175-186: the reply parsed; the Interaction is stored on success only
reflection_plan(mem, query, reply) ==
    LET r == json_loads(reply)
    IN IF r.ok
       THEN [out |-> r, mem |-> Append(mem, Interaction(query, r.val))]
       ELSE [out |-> Raise("ValueError"), mem |-> mem]

\* a reflector that raises on a reply that is not JSON
reflect_on_plan_strict(mem, reply) ==
    IF Len(mem) = 0
    THEN [requested |-> FALSE,
          out |-> Return(Dict([reflection |-> Line("No plan to reflect on"),
                               requires_changes |-> "false"]))]
    ELSE [requested |-> TRUE, out |-> json_loads(reply)]

\* reflect_on_plan(), lines 188-243: no request on an empty memory; else one request,
\* and a reply that is not JSON becomes {"reflection": <the reply>}
reflect_on_plan(mem, reply) ==
    IF Len(mem) = 0
    THEN [requested |-> FALSE,
          out |-> Return(Dict([reflection |-> Line("No plan to reflect on"),
                               requires_changes |-> "false"]))]
    ELSE LET r == json_loads(reply)
         IN [requested |-> TRUE,
             out |-> IF r.ok THEN r ELSE Return(Dict([reflection |-> Line(reply.raw)]))]

\* a revision whose parse failure is not caught
revise_strict(initial, reply) == json_loads(reply)

\* lines 270-273: the revised plan, or the initial plan when the reply is not JSON
revise(initial, reply) ==
    LET r == json_loads(reply)
    IN IF r.ok THEN r ELSE Return(initial)

\* the overwrite hitting the first Interaction instead of the last
store_first(mem, initial, refl, final) ==
    [mem EXCEPT ![1].plan =
        Dict([initial_plan |-> initial, reflection |-> refl, final_plan |-> final])]

\* lines 278-282: the stored Interaction's plan field is overwritten
store(mem, initial, refl, final) ==
    [mem EXCEPT ![Len(mem)].plan =
        Dict([initial_plan |-> initial, reflection |-> refl, final_plan |-> final])]

\* lines 285-292: the text returned
reflection_render(initial, refl, final) ==
    LET rt == dict_get(final, "requires_tools", "true")
        rf == dict_get(refl, "reflection", Line("No improvements suggested"))
        ith == dict_item(initial, "thought")
        ipl == dict_item(initial, "plan")
        fpl == dict_item(final, "plan")
        dr == dict_item(final, "direct_response")
    IN IF ~rt.ok THEN Raise(rt.exc)
       ELSE IF Truthy(rt.val)
       THEN IF ~ith.ok THEN Raise(ith.exc)
            ELSE IF ~ipl.ok THEN Raise(ipl.exc)
            ELSE IF ~rf.ok THEN Raise(rf.exc)
            ELSE IF ~fpl.ok THEN Raise(fpl.exc)
            ELSE Return([kind |-> "summary",
                         initial_thought |-> ith.val,
                         initial_plan |-> join(Sep, ipl.val),
                         reflection |-> rf.val,
                         final_plan |-> join(Sep, fpl.val)])
       ELSE IF ~dr.ok THEN Raise(dr.exc)
            ELSE IF ~rf.ok THEN Raise(rf.exc)
            ELSE Return([kind |-> "response", response |-> dr.val, reflection |-> rf.val])

\* the caller calls execute(query); the memory holds fewer than max Interactions
reflection_execute_upto(query, max) ==
    /\ rpc = "Idle"
    /\ Len(interactions) < max
    /\ rpc' = "Start"
    /\ rquery' = query
    /\ rlog' = <<>>
    /\ nreflect' = 0
    /\ rret' = NoRet
    /\ initial_plan' = NoPlan /\ reflection' = NoPlan /\ final_plan' = NoPlan
    /\ UNCHANGED <<tvars, interactions>>

\* the caller calls execute(query)
reflection_execute(query) == reflection_execute_upto(query, MaxInteractions)

\* line 249: initial_plan = self.plan(user_query), the model's reply one of replies
execute_initial_plan_from(replies) ==
    /\ rpc = "Start"
    /\ \E reply \in replies :
        LET r == reflection_plan(interactions, rquery, reply)
        IN /\ rlog' = Append(rlog, [request |-> "plan", reply |-> reply])
           /\ interactions' = r.mem
           /\ IF r.out.ok
              THEN /\ initial_plan' = r.out.val
                   /\ rpc' = "Planned"
                   /\ UNCHANGED rret
              ELSE /\ rret' = catch_all(r.out.exc)
                   /\ rpc' = "End"
                   /\ UNCHANGED initial_plan
    /\ UNCHANGED <<tvars, rquery, reflection, final_plan, nreflect>>

\* line 249 with any reply of the model
execute_initial_plan == execute_initial_plan_from(RPlanReplies)

\* line 252: reflection = self.reflect_on_plan(), the model's reply one of replies
execute_reflect_from(replies) ==
    /\ rpc = "Planned"
    /\ \E reply \in replies :
        LET r == reflect_on_plan(interactions, reply)
        IN /\ rlog' = IF r.requested
                      THEN Append(rlog, [request |-> "reflect", reply |-> reply])
                      ELSE rlog
           /\ nreflect' = nreflect + 1
           /\ IF r.out.ok
              THEN /\ reflection' = r.out.val
                   /\ rpc' = "Reflected"
                   /\ UNCHANGED rret
              ELSE /\ rret' = catch_all(r.out.exc)
                   /\ rpc' = "End"
                   /\ UNCHANGED reflection
    /\ UNCHANGED <<tvars, interactions, rquery, initial_plan, final_plan>>

\* line 252 with any reply of the model
execute_reflect == execute_reflect_from(ReflectionReplies)

\* lines 277-295: the Interaction is overwritten and the text is built
StoreAndRender(final) ==
    /\ interactions' = store(interactions, initial_plan, reflection, final)
    /\ LET r == reflection_render(initial_plan, reflection, final)
       IN IF r.ok
          THEN rret' = r.val /\ rpc' = "Rendered"
          ELSE rret' = catch_all(r.exc) /\ rpc' = "End"

\* lines 255-273: the reflection asks for changes, one revision request is sent,
\* the model's reply one of replies
execute_replan_from(replies) ==
    /\ rpc = "Reflected"
    /\ LET rc == dict_get(reflection, "requires_changes", "false")
       IN rc.ok /\ Truthy(rc.val)
    /\ \E reply \in replies :
        LET r == revise(initial_plan, reply)
        IN /\ rlog' = Append(rlog, [request |-> "revise", reply |-> reply])
           /\ IF r.ok
              THEN /\ final_plan' = r.val
                   /\ rpc' = "Replanned"
                   /\ UNCHANGED rret
              ELSE /\ rret' = catch_all(r.exc)
                   /\ rpc' = "End"
                   /\ UNCHANGED final_plan
    /\ UNCHANGED <<tvars, interactions, rquery, initial_plan, reflection, nreflect>>

\* lines 255-273 with any reply of the model
execute_replan == execute_replan_from(RPlanReplies)

\* lines 255, 274-292: no changes asked for, the final plan is the initial plan; a
\* reflection that is no JSON object has no .get and ends the call in the handler
execute_keep ==
    /\ rpc = "Reflected"
    /\ LET rc == dict_get(reflection, "requires_changes", "false")
       IN IF ~rc.ok
          THEN /\ rret' = catch_all(rc.exc)
               /\ rpc' = "End"
               /\ UNCHANGED <<interactions, final_plan>>
          ELSE /\ ~Truthy(rc.val)
               /\ final_plan' = initial_plan
               /\ StoreAndRender(initial_plan)
    /\ UNCHANGED <<tvars, rquery, initial_plan, reflection, rlog, nreflect>>

\* an execute that goes back to the reflector with the revised plan
execute_reflect_again ==
    /\ rpc = "Replanned"
    /\ rpc' = "Planned"
    /\ interactions' = [interactions EXCEPT ![Len(interactions)].plan = final_plan]
    /\ UNCHANGED <<tvars, rquery, initial_plan, reflection, final_plan, rlog, nreflect, rret>>

\* lines 277-292 after a revision
execute_render_revised ==
    /\ rpc = "Replanned"
    /\ StoreAndRender(final_plan)
    /\ UNCHANGED <<tvars, rquery, initial_plan, reflection, final_plan, rlog, nreflect>>

\* the return statement of lines 286-292
execute_return_summary ==
    /\ rpc = "Rendered"
    /\ rpc' = "End"
    /\ UNCHANGED <<tvars, interactions, rquery, initial_plan, reflection, final_plan,
                   rlog, nreflect, rret>>

\* the caller has the string; the locals of the call are gone
reflection_execute_done ==
    /\ rpc = "End"
    /\ rpc' = "Idle"
    /\ rquery' = "" /\ rlog' = <<>> /\ nreflect' = 0 /\ rret' = NoRet
    /\ initial_plan' = NoPlan /\ reflection' = NoPlan /\ final_plan' = NoPlan
    /\ UNCHANGED <<tvars, interactions>>

----------------------------------------------------------------------------
\* Specifications

\* the registry after the add_tool calls of log
RECURSIVE registry_of(_)
registry_of(log) ==
    IF Len(log) = 0 THEN <<>>
    ELSE dict_set(registry_of(SubSeq(log, 1, Len(log) - 1)), log[Len(log)])

\* the add_tool calls of a start-up that registers each name at most once (main())
StartupLogs ==
    {log \in UNION {[1..n -> ToolObjs] : n \in 0..Cardinality(ToolNames)} :
        \A i, j \in 1..Len(log) : i # j => log[i].name # log[j].name}

TInitLocals ==
    /\ lastCall = NoCall
    /\ tpc = "idle"
    /\ tplan = NoPlan
    /\ tidx = 0
    /\ tresults = <<>>
    /\ tinvoked = <<>>
    /\ tlog = <<>>
    /\ tsent = <<>>
    /\ treply = NotJson("")
    /\ tret = NoRet

\* the reflection Agent(): an empty working memory
RInit ==
    /\ interactions = <<>>
    /\ rpc = "Idle"
    /\ rquery = ""
    /\ initial_plan = NoPlan /\ reflection = NoPlan /\ final_plan = NoPlan
    /\ rlog = <<>>
    /\ nreflect = 0
    /\ rret = NoRet

\* both Agents as constructed: an empty registry, an empty working memory
Init ==
    /\ tools = <<>>
    /\ regLog = <<>>
    /\ TInitLocals
    /\ RInit

\* the Agent after start-up: the tools are registered, no query has run
InitToolUse ==
    /\ regLog \in StartupLogs
    /\ tools = registry_of(regLog)
    /\ TInitLocals
    /\ RInit

RegistryNext ==
    \/ \E tool \in ToolObjs : add_tool(tool)
    \/ \E n \in ToolNames \cup {"missing"}, k \in KwArgs, e \in AllEnvs : call_use_tool(n, k, e)
    \/ call_get_available_tools
    \/ call_create_system_prompt

SpecRegistry == Init /\ [][RegistryNext]_vars

ToolUseNext ==
    \/ \E q \in Queries : execute_plan(q)
    \/ \E e \in AllEnvs : execute_call(e)
    \/ execute_render
    \/ execute_return

SpecToolUse == InitToolUse /\ [][ToolUseNext]_vars

ReflectionStep ==
    \/ execute_initial_plan
    \/ execute_reflect
    \/ execute_replan
    \/ execute_keep
    \/ execute_render_revised
    \/ execute_return_summary

ReflectionNext ==
    \/ \E q \in Queries : reflection_execute(q)
    \/ ReflectionStep
    \/ reflection_execute_done

SpecReflection == Init /\ [][ReflectionNext]_vars

\* several queries run on one Agent: the replies the model gives are one of each
\* kind that decides what is stored (not JSON; JSON that is no object; a plan with
\* tools; a direct plan; a reflection that asks for changes, one that does not)
MemoryQueries == {"q1", "q2"}

MemoryPlanReplies ==
    { NotJson("raw plan"),
      JsonOther,
      JsonObj(("requires_tools" :> "true") @@ ToolFields("A")),
      JsonObj(("requires_tools" :> "false") @@ DirectField) }

MemoryReflectionReplies ==
    { NotJson("raw reflection"),
      JsonOther,
      JsonObj(("requires_changes" :> "true") @@ ("reflection" :> Line("critique"))),
      JsonObj(("requires_changes" :> "false") @@ ("reflection" :> Line("critique"))) }

MemoryNext ==
    \/ \E q \in MemoryQueries : reflection_execute_upto(q, MaxMemory)
    \/ execute_initial_plan_from(MemoryPlanReplies)
    \/ execute_reflect_from(MemoryReflectionReplies)
    \/ execute_replan_from(MemoryPlanReplies)
    \/ execute_keep
    \/ execute_render_revised
    \/ execute_return_summary
    \/ reflection_execute_done

SpecMemory == Init /\ [][MemoryNext]_vars

\* the code is synchronous: once execute is called, and every model request returns,
\* each of its statements is reached and run
SpecReflectionFair == SpecReflection /\ WF_vars(ReflectionStep)

----------------------------------------------------------------------------
\* Claims about the registry (checked under SpecRegistry)

EverRegistered(log, name) == \E i \in 1..Len(log) : log[i].name = name

\* the tool most recently registered under name
LastRegistered(log, name) ==
    log[CHOOSE i \in 1..Len(log) :
            /\ log[i].name = name
            /\ \A j \in (i+1)..Len(log) : log[j].name # name]

\* C1: use_tool(name, **args) raises the not-found ValueError, and runs no tool
\* implementation, exactly when no add_tool call ever registered a tool under name;
\* otherwise it runs the implementation of the tool most recently registered under
\* name exactly once with args, and its outcome is that implementation's outcome.
C1_UseToolDispatch ==
    lastCall.op = "use_tool" =>
        LET c == lastCall
            notFound == c.outcome = Raise("ValueError") /\ c.invoked = <<>>
        IN /\ notFound <=> ~EverRegistered(c.log, c.name)
           /\ EverRegistered(c.log, c.name) =>
                LET t == LastRegistered(c.log, c.name)
                IN /\ c.invoked = <<[func |-> t.func, kwargs |-> c.kwargs]>>
                   /\ c.outcome = tool_func(t, c.kwargs, c.env)

\* a name registered twice with different tools is used: the later tool answers
C1_Witness ==
    /\ lastCall.op = "use_tool"
    /\ lastCall.name = "lookup"
    /\ lastCall.outcome.ok
    /\ lastCall.outcome.val = Text("lookup_v2", lastCall.kwargs)
    /\ \E i \in 1..Len(lastCall.log) : lastCall.log[i] = LookupTool("lookup_v1")

\* the tools now registered, each at the place of the add_tool call that stored it
RECURSIVE ByLatestRegistration(_, _)
ByLatestRegistration(log, i) ==
    IF i > Len(log) THEN <<>>
    ELSE (IF \E j \in (i+1)..Len(log) : log[j].name = log[i].name
          THEN <<>> ELSE <<log[i]>>) \o ByLatestRegistration(log, i + 1)

\* the tools now registered, each at the place where its name was first registered
RECURSIVE ByFirstRegistration(_, _)
ByFirstRegistration(log, i) ==
    IF i > Len(log) THEN <<>>
    ELSE (IF \E j \in 1..(i-1) : log[j].name = log[i].name
          THEN <<>> ELSE <<LastRegistered(log, log[i].name)>>)
         \o ByFirstRegistration(log, i + 1)

\* the catalog out lists exactly the tools of expected, in that order
ListsExactly(out, expected) ==
    /\ Len(out) = Len(expected)
    /\ \A i \in 1..Len(out) :
          /\ out[i].name = expected[i].name
          /\ out[i].description = expected[i].description
    /\ \A i, j \in 1..Len(out) : i # j => out[i].name # out[j].name

IsCatalogCall == lastCall.op \in {"get_available_tools", "create_system_prompt"}

\* C2 as stated: the catalog lists exactly the currently registered tools, one entry
\* per registered name, no name twice, in the order in which those tools were
\* registered.
C2_Original ==
    IsCatalogCall => ListsExactly(lastCall.out, ByLatestRegistration(lastCall.log, 1))

\* C2 amended: the catalog lists exactly the currently registered tools, one entry per
\* registered name, no name twice, in the order in which the names were first
\* registered: registering a name again replaces its entry where it stands.
C2_CatalogFirstRegistrationOrder ==
    IsCatalogCall => ListsExactly(lastCall.out, ByFirstRegistration(lastCall.log, 1))

\* a name is registered again after another name, and the catalog is rendered
C2_Witness ==
    /\ lastCall.op = "create_system_prompt"
    /\ Len(lastCall.log) = 3
    /\ lastCall.log[1].name = "lookup"
    /\ lastCall.log[2].name = "convert_currency"
    /\ lastCall.log[3].name = "lookup"
    /\ lastCall.log[3] # lastCall.log[1]
    /\ Len(lastCall.out) = 2
    /\ lastCall.out[1].description = lastCall.log[3].description

----------------------------------------------------------------------------
\* Claims about the tool-use execute (checked under SpecToolUse)

HasField(k) == tplan.isdict /\ k \in DOMAIN tplan.d
TCalls == tplan.d["tool_calls"]

\* the plan says that it requires tools
RequiresTools == HasField("requires_tools") /\ tplan.d["requires_tools"] = "true"

AllRegistered == \A i \in 1..Len(TCalls) : HasKey(tools, TCalls[i].tool)

\* the implementation the i-th listed call has to run
Invocation(i) == [func |-> Lookup(tools, TCalls[i].tool).func, kwargs |-> TCalls[i].args]

\* the calls made so far all returned
NoneRaised == \A i \in 1..Len(tlog) : tlog[i].outcome.ok

Returned == [i \in 1..Len(tlog) |-> tlog[i].outcome.val]

\* C4: when the parsed plan has requires_tools = false, no tool implementation is
\* invoked during the call, whatever tools are registered and whatever tool_calls the
\* plan carries, and execute returns exactly the plan's direct_response.
C4_DirectResponseNoTools ==
    (HasField("requires_tools") /\ tplan.d["requires_tools"] = "false") =>
        /\ tpc = "done"
        /\ tinvoked = <<>>
        /\ tlog = <<>>
        /\ HasField("direct_response") => tret = Value(tplan.d["direct_response"])

\* a plan with requires_tools = false that also lists calls of registered tools
C4_Witness ==
    /\ tpc = "done"
    /\ HasField("requires_tools") /\ tplan.d["requires_tools"] = "false"
    /\ HasField("tool_calls") /\ Len(TCalls) = 2 /\ AllRegistered
    /\ tret = Value(Line("direct"))

\* the case of C5: a plan that requires tools, carries thought, plan and tool_calls,
\* and names registered tools only
C5_Case ==
    /\ RequiresTools
    /\ HasField("tool_calls") /\ HasField("thought") /\ HasField("plan")
    /\ AllRegistered

\* C5 as stated: when the plan requires tools and every named tool is registered,
\* each listed call is invoked exactly once, in the listed order, and the Results
\* part of the returned text holds the tool results in that order.
C5_Original ==
    (tpc = "done" /\ C5_Case) =>
        /\ tinvoked = [i \in 1..Len(TCalls) |-> Invocation(i)]
        /\ tret.kind = "summary"
        /\ tret.results = join(Sep, Returned)

\* C5 amended: when the plan requires tools and every named tool is registered, the
\* listed calls are invoked one at a time in the listed order up to and including
\* the first that raises: call i+1 starts only after call i has returned, no call
\* before the raising one is skipped, repeated or reordered, and no call after it is
\* invoked.  When no call raises, every listed call is invoked exactly once and the
\* Results part of the returned text holds the results in the listed order.
C5_InOrderUntilRaise ==
    (tpc \in {"loop", "done"} /\ C5_Case) =>
        LET n == Len(tlog)
        IN /\ n <= Len(TCalls)
           /\ tinvoked = [i \in 1..n |-> Invocation(i)]
           /\ \A i \in 1..(n-1) : tlog[i].outcome.ok
           /\ tpc = "loop" => /\ tidx = n + 1
                              /\ NoneRaised
                              /\ tresults = Returned
           /\ tpc = "done" =>
                IF NoneRaised
                THEN /\ n = Len(TCalls)
                     /\ tret.kind = "summary"
                     /\ tret.results = join(Sep, Returned)
                ELSE tret = ErrorString(tlog[n].outcome.exc)

\* two different calls of registered tools, both returned, the summary is rendered
C5_Witness ==
    /\ tpc = "done" /\ C5_Case
    /\ Len(TCalls) = 2 /\ TCalls[1] # TCalls[2]
    /\ Len(tlog) = 2 /\ NoneRaised
    /\ tret.kind = "summary"
    /\ Len(tret.results) = 3

\* C6: when the reply to the planning request is not valid JSON, execute does not
\* raise: it returns a string that begins with "Error executing plan:", and no tool
\* is invoked in that call.
C6_NotJsonIsErrorString ==
    (tpc # "idle" /\ ~treply.json) =>
        /\ tpc = "done"
        /\ tret.kind = "error"
        /\ tinvoked = <<>>
        /\ tlog = <<>>

\* tools are registered and the planning reply is not JSON
C6_Witness ==
    /\ tpc = "done"
    /\ ~treply.json
    /\ Len(tools) = 2
    /\ tret = ErrorString("ValueError")

\* how many of the calls made so far reached an implementation
NumFound == Cardinality({i \in 1..Len(tlog) : HasKey(tools, tlog[i].call.tool)})

\* C9: if the i-th tool call of a plan raises, execute returns only the error
\* string: the results of the calls 1..i-1 are not in it, and the calls i+1.. are
\* never invoked.
C9_RaiseAbortsPlan ==
    \A i \in 1..Len(tlog) :
        ~tlog[i].outcome.ok =>
            /\ i = Len(tlog)
            /\ tpc = "done"
            /\ tidx = i
            /\ tret = ErrorString(tlog[i].outcome.exc)
            /\ DOMAIN tret = {"kind", "msg"}
            /\ Len(tresults) = i - 1
            /\ Len(tinvoked) = NumFound

\* the second call raises after the first returned a result
C9_Witness ==
    /\ tpc = "done"
    /\ Len(tlog) = 2
    /\ tlog[1].outcome.ok
    /\ ~tlog[2].outcome.ok
    /\ Len(tresults) = 1
    /\ tret.kind = "error"

\* the failures convert_currency meets inside its try block
CurrencyFailures == {"network", "badjson", "norates", "norate"}

CurrencyErrorTexts ==
    {"Error converting currency", "Error: Could not fetch exchange rates", "Error: No rate found"}

FailedConversion(i) ==
    /\ tlog[i].call.tool = "convert_currency"
    /\ HasKey(tools, "convert_currency")
    /\ tlog[i].env \in CurrencyFailures

\* C10: a network, parsing or missing-rate failure inside convert_currency is
\* returned as an error text and never raised, so it does not abort the plan: the
\* text is that call's result, the next listed call is invoked, and when nothing
\* else fails execute returns the Thought/Plan/Results text with the error text in
\* the call's place, not the "Error executing plan:" string.
C10_CurrencyFailureIsData ==
    \A i \in 1..Len(tlog) :
        FailedConversion(i) =>
            /\ tlog[i].outcome.ok
            /\ tlog[i].outcome.val.out \in CurrencyErrorTexts
            /\ Len(tresults) >= i /\ tresults[i] = tlog[i].outcome.val
            /\ tpc = "loop" => tidx > i
            /\ tpc = "done" => (Len(tlog) > i \/ i = Len(TCalls))
            /\ (tpc = "done" /\ tret.kind = "error") =>
                  \/ ~tlog[Len(tlog)].outcome.ok
                  \/ ~HasField("thought") \/ ~HasField("plan")
            /\ (tpc = "done" /\ NoneRaised /\ HasField("thought") /\ HasField("plan")) =>
                  /\ tret.kind = "summary"
                  /\ Len(tlog) = Len(TCalls)
                  /\ tret.results[2 * i - 1] = tlog[i].outcome.val

\* the first of two calls is a conversion that meets a network failure, the second
\* call still runs and the summary is returned
C10_Witness ==
    /\ tpc = "done"
    /\ Len(tlog) = 2
    /\ FailedConversion(1) /\ tlog[1].env = "network"
    /\ tlog[2].call.tool = "lookup" /\ tlog[2].outcome.ok
    /\ tret.kind = "summary"
    /\ tret.results[1].out = "Error converting currency"

----------------------------------------------------------------------------
\* Claims about the reflection execute (checked under SpecReflection)

Requests == [i \in 1..Len(rlog) |-> rlog[i].request]
NumRevisions == Cardinality({i \in 1..Len(rlog) : rlog[i].request = "revise"})
RHas(v, k) == v.isdict /\ k \in DOMAIN v.d

\* C3 as stated: one execute sends at most one revision request and calls the
\* reflector exactly once whatever the model replies, issues at most three model
\* requests, and sends the revision request only when requires_changes is true.
C3_Original ==
    rpc = "End" =>
        /\ NumRevisions <= 1
        /\ nreflect = 1
        /\ Len(rlog) <= 3
        /\ NumRevisions = 1 =>
              RHas(reflection, "requires_changes") /\ reflection.d["requires_changes"] = "true"

\* C3 amended: one execute sends at most one revision request and calls the
\* reflector at most once: exactly once when the planning reply parses as JSON, not
\* at all when it does not.  The requests of one execute are a prefix of plan,
\* reflect, revise, so the revised plan is never reflected on or revised again and
\* at most three requests are issued; the revision request is sent only when the
\* reflection is a JSON object whose requires_changes is present and truthy (true,
\* or any other value Python takes as true).
C3_AtMostOneRevision ==
    /\ NumRevisions <= 1
    /\ nreflect <= 1
    /\ Len(rlog) <= 3
    /\ \A i \in 1..Len(rlog) : rlog[i].request = <<"plan", "reflect", "revise">>[i]
    /\ rpc \in {"Reflected", "Replanned", "Rendered"} => nreflect = 1
    /\ rpc = "End" => (nreflect = 1 <=> rlog[1].reply.json)
    /\ NumRevisions = 1 =>
          /\ RHas(reflection, "requires_changes")
          /\ reflection.d["requires_changes"] \in {"true", "yes"}

\* an execute that planned, reflected and revised, and whose revised plan differs
C3_Witness ==
    /\ rpc = "End"
    /\ Requests = <<"plan", "reflect", "revise">>
    /\ nreflect = 1
    /\ final_plan # initial_plan
    /\ rret.kind = "summary"

\* the case of C7: the initial plan requires tools (and carries its thought and plan),
\* the reflection asks for changes, the reply to the revision request is not JSON
C7_Case ==
    /\ RHas(initial_plan, "requires_tools") /\ initial_plan.d["requires_tools"] = "true"
    /\ RHas(initial_plan, "thought") /\ RHas(initial_plan, "plan")
    /\ RHas(reflection, "requires_changes") /\ reflection.d["requires_changes"] = "true"
    /\ Len(rlog) = 3 /\ ~rlog[3].reply.json

\* C7: in that case the final plan equals the initial plan, which is also what the
\* Interaction stores as final_plan; execute returns a normal summary, not an error
\* string, and the summary contains the initial plan's step text.
C7_RevisionFallback ==
    C7_Case =>
        /\ rpc \in {"Replanned", "Rendered", "End"}
        /\ final_plan = initial_plan
        /\ rpc \in {"Rendered", "End"} =>
              /\ interactions[Len(interactions)].plan.d["final_plan"] = initial_plan
              /\ interactions[Len(interactions)].plan.d["initial_plan"] = initial_plan
              /\ rret.kind = "summary"
              /\ rret.initial_plan = join(Sep, initial_plan.d["plan"])
              /\ rret.final_plan = join(Sep, initial_plan.d["plan"])

\* the call has returned in that case
C7_Witness ==
    /\ C7_Case
    /\ rpc = "End"
    /\ rret.kind = "summary"
    /\ Len(rret.final_plan) = 3

\* the steps of one execute call and the step each may be followed by
StepOrder ==
    {<<"Idle", "Start">>, <<"Start", "Planned">>, <<"Planned", "Reflected">>,
     <<"Reflected", "Replanned">>, <<"Reflected", "Rendered">>,
     <<"Replanned", "Rendered">>, <<"Rendered", "End">>, <<"End", "Idle">>}

\* C8: each execute call passes through its steps only in the order Start, Planned,
\* Reflected, optionally Replanned, Rendered, End; the only other way on is the
\* catch-all, which ends the call with the "Error executing plan:" string instead of
\* raising; the call always returns a string, and, every model request returning,
\* every call reaches its end.
C8_StepOrderAndTermination ==
    /\ [][rpc' # rpc =>
            \/ <<rpc, rpc'>> \in StepOrder /\ (rpc' = "End" => rret'.kind \in {"summary", "response"})
            \/ /\ rpc \in {"Start", "Planned", "Reflected", "Replanned"}
               /\ rpc' = "End"
               /\ rret'.kind = "error"]_vars
    /\ [](rpc = "End" => rret.kind \in {"summary", "response", "error"})
    /\ [](rpc = "Rendered" => rret.kind \in {"summary", "response"})
    /\ (rpc = "Start" ~> rpc = "End")

\* a call that went through Replanned has returned the direct response of the
\* revised plan
C8_Witness ==
    /\ rpc = "End"
    /\ Requests = <<"plan", "reflect", "revise">>
    /\ rret.kind = "response"

\* the plan is a JSON object with a requires_tools flag and the fields that are
\* meaningful for the flag: thought and plan when it is true, direct_response when
\* it is false
CarriesItsFields(p) ==
    /\ RHas(p, "requires_tools")
    /\ p.d["requires_tools"] \in {"true", "false"}
    /\ p.d["requires_tools"] = "true" => RHas(p, "thought") /\ RHas(p, "plan")
    /\ p.d["requires_tools"] = "false" => RHas(p, "direct_response")

\* the case of C11: the reply to the reflection request is not JSON
C11_Case == Len(rlog) >= 2 /\ ~rlog[2].reply.json

\* C11: when the reflector's reply is not valid JSON, the reflection is the object
\* whose only field, reflection, is the raw reply text (no requires_changes); no
\* revision request is sent, the final plan is the initial plan (also in the stored
\* Interaction), and the text execute returns has the raw reply as its Reflection
\* part.  The text is a normal one whenever the initial plan carries the fields of
\* its own flag.
C11_NotJsonReflection ==
    C11_Case =>
        /\ rpc \in {"Reflected", "Rendered", "End"}
        /\ reflection = Dict("reflection" :> Line(rlog[2].reply.raw))
        /\ ~RHas(reflection, "requires_changes")
        /\ NumRevisions = 0
        /\ rpc \in {"Rendered", "End"} =>
              /\ final_plan = initial_plan
              /\ interactions[Len(interactions)].plan.d["final_plan"] = initial_plan
              /\ interactions[Len(interactions)].plan.d["reflection"] = reflection
              /\ rret.kind \in {"summary", "response"} =>
                    rret.reflection = Line(rlog[2].reply.raw)
              /\ CarriesItsFields(initial_plan) => rret.kind \in {"summary", "response"}

\* the call has returned its summary with the raw reply in it
C11_Witness ==
    /\ C11_Case
    /\ rpc = "End"
    /\ rret.kind = "summary"
    /\ rret.reflection.out = "raw reflection"
    /\ final_plan = initial_plan

\* the case of C12: the call has returned, every reply parsed as JSON (the
\* reflection as an object), and the initial and the final plan each carry the
\* fields of their own flag
C12_Case ==
    /\ rpc = "End"
    /\ \A i \in 1..Len(rlog) : rlog[i].reply.json
    /\ Len(rlog) >= 2
    /\ reflection.isdict
    /\ CarriesItsFields(initial_plan)
    /\ CarriesItsFields(final_plan)

\* the Reflection part of a returned text
ReflectionText ==
    IF RHas(reflection, "reflection") THEN reflection.d["reflection"]
    ELSE Line("No improvements suggested")

\* C12 as stated: in that case execute returns a normal summary chosen by the final
\* plan's flag, for every combination of the two flags: reasoning, step list and
\* reflection text when the final plan requires tools, direct response and
\* reflection text when it does not; never the "Error executing plan:" string.
C12_Original ==
    C12_Case =>
        /\ rret.kind # "error"
        /\ final_plan.d["requires_tools"] = "true" =>
              /\ rret.kind = "summary"
              /\ rret.final_plan = join(Sep, final_plan.d["plan"])
              /\ rret.reflection = ReflectionText
        /\ final_plan.d["requires_tools"] = "false" =>
              /\ rret.kind = "response"
              /\ rret.response = final_plan.d["direct_response"]
              /\ rret.reflection = ReflectionText

\* the failing combination: a direct initial plan without thought, revised into a
\* plan that requires tools, ends in the handler
C12_Witness ==
    /\ C12_Case
    /\ initial_plan.d["requires_tools"] = "false"
    /\ ~RHas(initial_plan, "thought")
    /\ final_plan.d["requires_tools"] = "true"
    /\ rret = ErrorString("KeyError")

\* what the code does in the case of C12: the stated summary except when the final
\* plan requires tools and the initial plan lacks thought or plan, where line 286 or
\* 287 raises KeyError and the error string is returned
C12_Behaviour ==
    C12_Case =>
        IF /\ final_plan.d["requires_tools"] = "true"
           /\ ~(RHas(initial_plan, "thought") /\ RHas(initial_plan, "plan"))
        THEN rret = ErrorString("KeyError")
        ELSE /\ rret.kind = (IF final_plan.d["requires_tools"] = "true"
                             THEN "summary" ELSE "response")
             /\ rret.reflection = ReflectionText

----------------------------------------------------------------------------
\* Claims about the working memory over several execute calls (checked under
\* SpecMemory)

\* the Interactions before the last are the same after the step
EarlierKept ==
    /\ Len(interactions') >= Len(interactions)
    /\ \A i \in 1..(Len(interactions) - 1) : interactions'[i] = interactions[i]

\* the plan field execute writes at lines 278-282
StoredPlans == Dict([initial_plan |-> initial_plan, reflection |-> reflection,
                     final_plan |-> final_plan])

\* C13: working memory only grows.  The planning step of an execute appends exactly
\* one Interaction, for the query of the call, when the planning reply parses as
\* JSON, and leaves the memory as it is when the reply does not parse; every other
\* step keeps the length, the order, every Interaction before the last and the last
\* one's query, and changes nothing at all outside the call's store; while the call
\* runs the last Interaction is the one of its query, and once the text is built,
\* and when a normal summary is returned, its plan field is exactly
\* {initial_plan, reflection, final_plan} of that call.
C13_MemoryOnlyGrows ==
    /\ [][/\ EarlierKept
          /\ rpc = "Start" =>
                interactions' =
                    IF rlog'[1].reply.json
                    THEN Append(interactions,
                                Interaction(rquery, json_loads(rlog'[1].reply).val))
                    ELSE interactions
          /\ rpc # "Start" =>
                /\ Len(interactions') = Len(interactions)
                /\ \A i \in 1..Len(interactions) :
                      interactions'[i].query = interactions[i].query
          /\ rpc \notin {"Start", "Reflected", "Replanned"} =>
                interactions' = interactions]_vars
    /\ [](rpc \in {"Planned", "Reflected", "Replanned"} =>
              /\ Len(interactions) >= 1
              /\ interactions[Len(interactions)] = Interaction(rquery, initial_plan))
    /\ []((rpc = "Rendered" \/ (rpc = "End" /\ rret.kind \in {"summary", "response"})) =>
              /\ Len(interactions) >= 1
              /\ interactions[Len(interactions)] = Interaction(rquery, StoredPlans))

\* a second query has returned its summary: the memory holds the first query's
\* Interaction, as the first call left it, before the second's
C13_Witness ==
    /\ rpc = "End"
    /\ rret.kind = "summary"
    /\ Len(interactions) = 2
    /\ interactions[1].query = "q1"
    /\ RHas(interactions[1].plan, "final_plan")
    /\ interactions[2] = Interaction("q2", StoredPlans)
    /\ interactions[2].plan # interactions[1].plan

====
